---- MODULE Spec2Model ----
(***************************************************************************)
(* A model of src/main.cpp: the CPUID cache probe (getCacheParameters),    *)
(* the block-size heuristic (calculateOptimalBlockSize), the two transpose *)
(* kernels (naiveTransposeMatrix, blockTransposeMatrix) and main.          *)
(*                                                                         *)
(* The program is single threaded.  Every function is a little machine     *)
(* over pc: one action per loop test, loop body or straight-line block.    *)
(* A call sets retPc, the return address, and the callee's last action     *)
(* jumps to it.  Four specifications drive the same actions:               *)
(*   SpecTranspose  the two kernels on drawn matrices and block sizes,     *)
(*   SpecBlockSize  calculateOptimalBlockSize on drawn cache geometries    *)
(*                  (FairSpecBlockSize adds the progress of the one        *)
(*                  thread),                                               *)
(*   SpecProbe      getCacheParameters on drawn CPUID leaf-4 tables,       *)
(*   SpecMain       main, from argv to the exit code.                      *)
(***************************************************************************)
EXTENDS Integers, Sequences, FiniteSets

VARIABLES
    pc,                  \* position of the one thread
    retPc,               \* return address of the function being executed
    \* ---- main (src/main.cpp:182-228)
    argPresent,          \* args.is_present("--n")
    argValue,            \* args.get_options("--n")[0], a sequence of characters
    n,                   \* matrix dimension
    selectedCore,        \* result of selectPerformanceCore()
    pinned,              \* result of pinToCore(selectedCore)
    exitCode,            \* -1 while running, main's return value afterwards
    \* ---- getCacheParameters (src/main.cpp:43-65)
    hw,                  \* the machine: CPUID leaf 4, subleaf -> descriptor
    subleaf,             \* loop variable i of getCacheParameters
    eax, ebx, ecx,       \* registers written by the last getCpuid
    queried,             \* the subleaves getCpuid was called with, in order
    l1CacheSizeKB, associativity, cacheLineSize,   \* the out-parameters
    detected,            \* return value of getCacheParameters
    \* ---- calculateOptimalBlockSize (src/main.cpp:130-148)
    elementsPerCacheLine, alignedBlockSide, numSets, linesPerBlock,
    optimalBlockSize,    \* its return value
    \* ---- the transpose kernels (src/main.cpp:150-168)
    mat,                 \* the matrices, by name
    src, dst,            \* names of the kernel's A and B arguments
    blockSize,           \* blockTransposeMatrix's blockSize argument
    i, j, bi, bj,        \* loop variables of the kernels
    useBlock,            \* measureTime's useBlock argument
    phase                \* how many kernel calls have returned

mainVars  == <<argPresent, argValue, selectedCore, pinned, exitCode>>
probeVars == <<hw, subleaf, eax, ebx, ecx, queried, detected>>
geomVars  == <<l1CacheSizeKB, associativity, cacheLineSize>>
calcVars  == <<elementsPerCacheLine, alignedBlockSide, numSets, linesPerBlock,
               optimalBlockSize>>
transVars == <<mat, src, dst, blockSize, i, j, bi, bj, useBlock, phase>>
vars      == <<pc, retPc, n, mainVars, probeVars, geomVars, calcVars, transVars>>

----------------------------------------------------------------------------
(* Bounds of the drawn inputs.                                             *)

\* matrix dimensions 1..MaxN
MaxN == 3
\* block sizes 1..MaxBlock: 1, divisors and non-divisors of n, n, above n
MaxBlock == 5

\* cache sizes 1..MaxL1KB KiB, besides the fallback's
MaxL1KB == 4
\* associativities 1..MaxAssoc, besides the fallback's and the largest CPUID
\* can report
MaxAssoc == 4
\* line sizes 1..MaxLineSize bytes (1, 2, 3 are below sizeof(int)), besides
\* the fallback's and the largest CPUID can report
MaxLineSize == 9

\* characters in a drawn value of --n: 0..MaxArgLen
MaxArgLen == 2

\* main's built-in matrix dimension
DefaultN == 512

\* subleaves in a drawn CPUID leaf-4 table: more than the probe ever scans
TableLen == 12

\* the iteration bound of getCacheParameters' loop
MaxSubleaves == 10

\* the fallback geometry of getCacheParameters
FallbackL1KB == 32
FallbackAssociativity == 8
FallbackLineSize == 64

\* sizeof(int) on every build that has <cpuid.h> or <intrin.h> (x86, x86-64)
SizeofInt == 4

----------------------------------------------------------------------------
(* Values of variables a specification does not use.                       *)

NoMatrix == [r \in {} |-> 0]

MainIdle ==
    /\ argPresent = FALSE /\ argValue = <<>>
    /\ selectedCore = 0 /\ pinned = FALSE /\ exitCode = -1

ProbeIdle ==
    /\ hw = <<>> /\ subleaf = 0 /\ eax = 0 /\ ebx = 0 /\ ecx = 0
    /\ queried = <<>> /\ detected = FALSE

GeomIdle == l1CacheSizeKB = 0 /\ associativity = 0 /\ cacheLineSize = 0

CalcIdle ==
    /\ elementsPerCacheLine = 0 /\ alignedBlockSide = 0 /\ numSets = 0
    /\ linesPerBlock = 0 /\ optimalBlockSize = 0

TransIdle ==
    /\ mat = [A |-> NoMatrix, B |-> NoMatrix, B_naive |-> NoMatrix, C |-> NoMatrix]
    /\ src = "A" /\ dst = "B" /\ blockSize = 0
    /\ i = 0 /\ j = 0 /\ bi = 0 /\ bj = 0 /\ useBlock = FALSE /\ phase = 0

----------------------------------------------------------------------------
(* The transpose kernels.  A matrix is vector<vector<int>>: a function     *)
(* from row 0..n-1 to a function from column 0..n-1 to int.                *)

Idx(d) == 0 .. d - 1

\* vector<vector<int>> B(n, vector<int>(n, v))
FilledMatrix(d, v) == [r \in Idx(d) |-> [c \in Idx(d) |-> v]]

\* for (i..) for (j..) A[i][j] = i * n + j
IndexMatrix(d) == [r \in Idx(d) |-> [c \in Idx(d) |-> r * d + c]]

\* a slip: the indices of the destination not swapped
NaiveStoreCopy(B, A, r, c) == [B EXCEPT ![r][c] = A[r][c]]

\* the statement B[j][i] = A[i][j] of naiveTransposeMatrix
NaiveStore(B, A, r, c) == [B EXCEPT ![c][r] = A[r][c]]

\* the loop conditions i < n and j < n of naiveTransposeMatrix
NaiveRowCond(r, d) == r < d
NaiveColCond(c, d) == c < d

NaiveOuter ==
    /\ pc = "nt_i"
    /\ IF NaiveRowCond(i, n)
       THEN /\ j' = 0
            /\ pc' = "nt_j"
            /\ UNCHANGED <<retPc, phase>>
       ELSE /\ pc' = retPc
            /\ retPc' = "none"
            /\ phase' = phase + 1
            /\ UNCHANGED j
    /\ UNCHANGED <<n, mainVars, probeVars, geomVars, calcVars,
                   mat, src, dst, blockSize, i, bi, bj, useBlock>>

NaiveInner ==
    /\ pc = "nt_j"
    /\ IF NaiveColCond(j, n)
       THEN /\ mat' = [mat EXCEPT ![dst] = NaiveStore(mat[dst], mat[src], i, j)]
            /\ j' = j + 1
            /\ UNCHANGED <<pc, i>>
       ELSE /\ i' = i + 1
            /\ pc' = "nt_i"
            /\ UNCHANGED <<mat, j>>
    /\ UNCHANGED <<retPc, n, mainVars, probeVars, geomVars, calcVars,
                   src, dst, blockSize, bi, bj, useBlock, phase>>

\* a slip: the indices of the destination not swapped
BlockStoreCopy(B, A, r, c) == [B EXCEPT ![r][c] = A[r][c]]

\* the statement B[bj][bi] = A[bi][bj] of blockTransposeMatrix
BlockStore(B, A, r, c) == [B EXCEPT ![c][r] = A[r][c]]

\* a slip: the last column of tiles left out
BlockColCondShort(c, d) == c < d - 1

\* a slip: the tile not clamped to n
TileColCondUnclamped(c, c0, bs, d) == c < c0 + bs

\* the loop conditions of blockTransposeMatrix
BlockRowCond(r, d) == r < d
BlockColCond(c, d) == c < d
TileRowCond(r, r0, bs, d) == r < r0 + bs /\ r < d
TileColCond(c, c0, bs, d) == c < c0 + bs /\ c < d

BlockOuter ==
    /\ pc = "bt_i"
    /\ IF BlockRowCond(i, n)
       THEN /\ j' = 0
            /\ pc' = "bt_j"
            /\ UNCHANGED <<retPc, phase>>
       ELSE /\ pc' = retPc
            /\ retPc' = "none"
            /\ phase' = phase + 1
            /\ UNCHANGED j
    /\ UNCHANGED <<n, mainVars, probeVars, geomVars, calcVars,
                   mat, src, dst, blockSize, i, bi, bj, useBlock>>

BlockInner ==
    /\ pc = "bt_j"
    /\ IF BlockColCond(j, n)
       THEN /\ bi' = i
            /\ pc' = "bt_bi"
            /\ UNCHANGED i
       ELSE /\ i' = i + blockSize
            /\ pc' = "bt_i"
            /\ UNCHANGED bi
    /\ UNCHANGED <<retPc, n, mainVars, probeVars, geomVars, calcVars,
                   mat, src, dst, blockSize, j, bj, useBlock, phase>>

TileRow ==
    /\ pc = "bt_bi"
    /\ IF TileRowCond(bi, i, blockSize, n)
       THEN /\ bj' = j
            /\ pc' = "bt_bj"
            /\ UNCHANGED j
       ELSE /\ j' = j + blockSize
            /\ pc' = "bt_j"
            /\ UNCHANGED bj
    /\ UNCHANGED <<retPc, n, mainVars, probeVars, geomVars, calcVars,
                   mat, src, dst, blockSize, i, bi, useBlock, phase>>

TileCol ==
    /\ pc = "bt_bj"
    /\ IF TileColCond(bj, j, blockSize, n)
       THEN /\ pc' = "bt_store"
            /\ UNCHANGED bi
       ELSE /\ bi' = bi + 1
            /\ pc' = "bt_bi"
    /\ UNCHANGED <<retPc, n, mainVars, probeVars, geomVars, calcVars,
                   mat, src, dst, blockSize, i, j, bj, useBlock, phase>>

TileStore ==
    /\ pc = "bt_store"
    /\ mat' = [mat EXCEPT ![dst] = BlockStore(mat[dst], mat[src], bi, bj)]
    /\ bj' = bj + 1
    /\ pc' = "bt_bj"
    /\ UNCHANGED <<retPc, n, mainVars, probeVars, geomVars, calcVars,
                   src, dst, blockSize, i, j, bi, useBlock, phase>>

----------------------------------------------------------------------------
(* The machine.  CPUID leaf 4 (deterministic cache parameters) answers     *)
(* subleaf k with one descriptor; hw[k + 1] holds its true values: type    *)
(* (0 no more caches, 1 data, 2 instruction, 3 unified), level, ways,      *)
(* partitions, line size in bytes and sets.  getCpuid hands the program    *)
(* the registers, in which the counts are stored minus one.                *)

Desc(t, lv, w, p, l, s) ==
    [type |-> t, level |-> lv, ways |-> w, partitions |-> p, lineSize |-> l,
     sets |-> s]

\* EAX: bits 4-0 the cache type, bits 7-5 the cache level
RegEAX(d) == d.type + 32 * d.level
\* EBX: bits 31-22 ways - 1, bits 21-12 partitions - 1, bits 11-0 line size - 1
RegEBX(d) == (d.ways - 1) * 4194304 + (d.partitions - 1) * 4096 + (d.lineSize - 1)
\* ECX: sets - 1
RegECX(d) == d.sets - 1

(* getCacheParameters.  The registers are unsigned int and the product of  *)
(* line 53 is taken modulo 2^32; every drawn machine has registers and a   *)
(* cache size below 2^31, so nothing wraps here.                           *)

\* eax & 0x1F
CacheType(a) == a % 32

\* a slip: instruction caches accepted too
AcceptsTypeAny(t) == t = 1 \/ t = 2 \/ t = 3

\* cacheType == 1 || cacheType == 3
AcceptsType(t) == t = 1 \/ t = 3

\* a slip: <= for <
ScanCondInclusive(k) == k <= MaxSubleaves

\* i < 10
ScanCond(k) == k < MaxSubleaves

\* (ebx >> 22) + 1
DecodeWays(b) == (b \div 4194304) + 1
\* ((ebx >> 12) & 0x3FF) + 1
DecodePartitions(b) == ((b \div 4096) % 1024) + 1
\* (ebx & 0xFFF) + 1
DecodeLineSize(b) == (b % 4096) + 1
\* the right-hand side of line 53
DecodeSizeKB(b, c) ==
    (DecodeWays(b) * DecodePartitions(b) * DecodeLineSize(b) * (c + 1)) \div 1024

\* Line 46: the for loop's test; leaving the loop reaches line 60.
ProbeLoop ==
    /\ pc = "gp_loop"
    /\ pc' = IF ScanCond(subleaf) THEN "gp_cpuid" ELSE "gp_fallback"
    /\ UNCHANGED <<retPc, n, mainVars, probeVars, geomVars, calcVars, transVars>>

\* Line 47: getCpuid(4, i, eax, ebx, ecx, edx).
ProbeCpuid ==
    /\ pc = "gp_cpuid"
    /\ eax' = RegEAX(hw[subleaf + 1])
    /\ ebx' = RegEBX(hw[subleaf + 1])
    /\ ecx' = RegECX(hw[subleaf + 1])
    /\ queried' = Append(queried, subleaf)
    /\ pc' = "gp_check"
    /\ UNCHANGED <<retPc, n, mainVars, hw, subleaf, detected, geomVars, calcVars,
                   transVars>>

\* Lines 49-57: break on a terminator, return the first data or unified
\* descriptor, otherwise i++.
ProbeCheck ==
    /\ pc = "gp_check"
    /\ IF CacheType(eax) = 0
       THEN /\ pc' = "gp_fallback"
            /\ UNCHANGED <<retPc, subleaf, detected, geomVars>>
       ELSE IF AcceptsType(CacheType(eax))
       THEN /\ l1CacheSizeKB' = DecodeSizeKB(ebx, ecx)
            /\ associativity' = DecodeWays(ebx)
            /\ cacheLineSize' = DecodeLineSize(ebx)
            /\ detected' = TRUE
            /\ pc' = retPc
            /\ retPc' = "none"
            /\ UNCHANGED subleaf
       ELSE /\ subleaf' = subleaf + 1
            /\ pc' = "gp_loop"
            /\ UNCHANGED <<retPc, detected, geomVars>>
    /\ UNCHANGED <<n, mainVars, hw, eax, ebx, ecx, queried, calcVars, transVars>>

\* Lines 60-64: the fallback values, the warning, return false.
ProbeFallback ==
    /\ pc = "gp_fallback"
    /\ l1CacheSizeKB' = FallbackL1KB
    /\ associativity' = FallbackAssociativity
    /\ cacheLineSize' = FallbackLineSize
    /\ detected' = FALSE
    /\ pc' = retPc
    /\ retPc' = "none"
    /\ UNCHANGED <<n, mainVars, hw, subleaf, eax, ebx, ecx, queried, calcVars,
                   transVars>>

(* SpecProbe: getCacheParameters on drawn machines.  A drawn table has k   *)
(* rejected descriptors (instruction caches, or the reserved type 4), then *)
(* at subleaf k a data cache, a unified cache or the terminator, and after *)
(* it one descriptor repeated: the terminator or another cache.            *)

Terminator == Desc(0, 0, 1, 1, 1, 1)
DataL1     == Desc(1, 1, 8, 1, 64, 64)
InstrL1    == Desc(2, 1, 8, 1, 64, 64)
UnifiedL2  == Desc(3, 2, 4, 1, 64, 1024)
ReservedT4 == Desc(4, 1, 2, 1, 32, 16)
DataSmall  == Desc(1, 1, 2, 2, 32, 16)
DataNarrow == Desc(1, 1, 1, 1, 2, 512)
UnifiedBig == Desc(3, 3, 12, 1, 64, 16384)

Table(k, filler, d, tail) ==
    [m \in 1 .. TableLen |->
        IF m - 1 < k THEN filler ELSE IF m - 1 = k THEN d ELSE tail]

Machines ==
    { Table(k, filler, d, tail) :
        k \in 0 .. TableLen,
        filler \in {InstrL1, ReservedT4},
        d \in {Terminator, DataL1, UnifiedL2, DataSmall, DataNarrow, UnifiedBig},
        tail \in {Terminator, DataL1, UnifiedL2} }

InitProbe ==
    /\ pc = "gp_loop" /\ retPc = "gp_done"
    /\ MainIdle /\ GeomIdle /\ CalcIdle /\ TransIdle
    /\ n = DefaultN
    /\ hw \in Machines
    /\ subleaf = 0 /\ eax = 0 /\ ebx = 0 /\ ecx = 0
    /\ queried = <<>> /\ detected = FALSE

NextProbe == ProbeLoop \/ ProbeCpuid \/ ProbeCheck \/ ProbeFallback

SpecProbe == InitProbe /\ [][NextProbe]_vars

\* what the machine reports at subleaf k
TypeAt(k) == hw[k + 1].type

\* the three ways of finding nothing: subleaf 0 is the terminator, a
\* terminator comes before any data or unified descriptor, or all of the
\* first 10 subleaves are of rejected types
NoUsableDescriptor ==
    \/ TypeAt(0) = 0
    \/ \E k \in 0 .. 9 :
          TypeAt(k) = 0 /\ \A m \in 0 .. k - 1 : TypeAt(m) \notin {1, 3}
    \/ \A k \in 0 .. 9 : TypeAt(k) \notin {0, 1, 3}

\* C6: when the scan finds no usable descriptor, getCacheParameters returns
\* false with exactly 32768 bytes (32 KiB), 8 ways and 64-byte lines.
C6_FallbackGeometry ==
    (pc = "gp_done" /\ NoUsableDescriptor) =>
        /\ detected = FALSE
        /\ l1CacheSizeKB * 1024 = 32768
        /\ associativity = 8
        /\ cacheLineSize = 64

\* C6 happens: ten instruction-only subleaves, data caches only from subleaf
\* 10 on, and the probe has returned after scanning all ten.
C6_Witness ==
    /\ pc = "gp_done"
    /\ \A k \in 0 .. 9 : TypeAt(k) = 2
    /\ TypeAt(10) = 1
    /\ Len(queried) = 10
    /\ detected = FALSE /\ l1CacheSizeKB = 32

\* C10: the subleaves are queried in the order 0, 1, 2, ..., at most 10 of
\* them and none after a terminator or an accepted descriptor; a successful
\* return carries the true parameters of the lowest-numbered subleaf of type
\* 1 or 3, which lies below 10 and before any terminator; and the probe
\* succeeds whenever there is such a subleaf.
C10_FirstDataOrUnified ==
    /\ Len(queried) <= 10
    /\ \A m \in 1 .. Len(queried) : queried[m] = m - 1
    /\ \A m \in 1 .. Len(queried) - 1 : TypeAt(queried[m]) \notin {0, 1, 3}
    /\ (pc = "gp_done" /\ detected) =>
          /\ subleaf < 10
          /\ TypeAt(subleaf) \in {1, 3}
          /\ \A m \in 0 .. subleaf - 1 : TypeAt(m) \notin {0, 1, 3}
          /\ LET d == hw[subleaf + 1]
             IN  /\ associativity = d.ways
                 /\ cacheLineSize = d.lineSize
                 /\ l1CacheSizeKB =
                        (d.ways * d.partitions * d.lineSize * d.sets) \div 1024
    /\ (pc = "gp_done" /\ ~NoUsableDescriptor) => detected

\* C10 happens: two instruction caches are skipped, the unified 256 KiB cache
\* at subleaf 2 is returned, and the data cache after it is not.
C10_Witness ==
    /\ pc = "gp_done" /\ detected
    /\ TypeAt(0) = 2 /\ TypeAt(1) = 2 /\ TypeAt(2) = 3 /\ TypeAt(3) = 1
    /\ queried = <<0, 1, 2>>
    /\ l1CacheSizeKB = 256 /\ associativity = 4 /\ cacheLineSize = 64

----------------------------------------------------------------------------
(* calculateOptimalBlockSize(l1CacheSizeKB, associativity, cacheLineSize,  *)
(* n).  The arithmetic is int and size_t arithmetic on non-negative values *)
(* below 2^31 for every geometry drawn here (l1CacheSizeKB * 1024 fits an  *)
(* int up to 2097151 KiB), so no operation wraps or truncates.             *)

Max(a, b) == IF a >= b THEN a ELSE b

\* static_cast<int>(sqrt(x)) for an int x >= 0: sqrt is correctly rounded
\* and x < 2^53, so the cast yields the integer square root
ISqrt(x) == CHOOSE r \in 0 .. x : r * r <= x /\ x < (r + 1) * (r + 1)

\* (alignedBlockSide * alignedBlockSide * sizeof(int)) / cacheLineSize
LinesPerBlock(side, line) == (side * side * SizeofInt) \div line

\* a slip: >= for >
ShrinkCondInclusive(lines, sets, assoc) == lines >= sets * (assoc \div 2)

\* the condition of the while loop
ShrinkCond(lines, sets, assoc) == lines > sets * (assoc \div 2)

\* a slip: the result not floored at one cache line
BlockSizeResultUnfloored(side, perLine) == side

\* max(alignedBlockSide, elementsPerCacheLine)
BlockSizeResult(side, perLine) == Max(side, perLine)

\* Lines 131-140.  With cacheLineSize < sizeof(int), elementsPerCacheLine is
\* 0 and maxBlockSide % elementsPerCacheLine divides by zero: undefined
\* behaviour, which on the x86 builds this file compiles for is the idiv
\* instruction's divide error, delivered as SIGFPE (an unhandled structured
\* exception on Windows); the process dies.
CalcSetup ==
    /\ pc = "calc_start"
    /\ LET l1CacheSizeBytes == l1CacheSizeKB * 1024
           maxBlockSizeBytes == l1CacheSizeBytes \div 2
           maxElementsPerBlock == maxBlockSizeBytes \div SizeofInt
           maxBlockSide == ISqrt(maxElementsPerBlock)
           perLine == cacheLineSize \div SizeofInt
           totalCacheLines == l1CacheSizeBytes \div cacheLineSize
       IN  /\ elementsPerCacheLine' = perLine
           /\ IF perLine = 0
              THEN /\ pc' = "sigfpe"
                   /\ UNCHANGED <<alignedBlockSide, numSets, linesPerBlock>>
              ELSE LET side == maxBlockSide - (maxBlockSide % perLine)
                   IN  /\ alignedBlockSide' = side
                       /\ numSets' = totalCacheLines \div associativity
                       /\ linesPerBlock' = LinesPerBlock(side, cacheLineSize)
                       /\ pc' = "calc_loop"
    /\ UNCHANGED <<retPc, n, mainVars, probeVars, geomVars, optimalBlockSize,
                   transVars>>

\* Lines 142-145: one test of the while condition, and the body if it holds.
CalcShrink ==
    /\ pc = "calc_loop"
    /\ IF ShrinkCond(linesPerBlock, numSets, associativity)
       THEN /\ alignedBlockSide' = alignedBlockSide - elementsPerCacheLine
            /\ linesPerBlock' =
                   LinesPerBlock(alignedBlockSide - elementsPerCacheLine,
                                 cacheLineSize)
            /\ UNCHANGED pc
       ELSE /\ pc' = "calc_ret"
            /\ UNCHANGED <<alignedBlockSide, linesPerBlock>>
    /\ UNCHANGED <<retPc, n, mainVars, probeVars, geomVars,
                   elementsPerCacheLine, numSets, optimalBlockSize, transVars>>

\* Line 147.
CalcReturn ==
    /\ pc = "calc_ret"
    /\ optimalBlockSize' = BlockSizeResult(alignedBlockSide, elementsPerCacheLine)
    /\ pc' = retPc
    /\ retPc' = "none"
    /\ UNCHANGED <<n, mainVars, probeVars, geomVars, elementsPerCacheLine,
                   alignedBlockSide, numSets, linesPerBlock, transVars>>

(* SpecBlockSize: calculateOptimalBlockSize on every drawn geometry with   *)
(* three positive fields.                                                  *)

L1SizesKB == (1 .. MaxL1KB) \cup {FallbackL1KB}
Associativities == (1 .. MaxAssoc) \cup {FallbackAssociativity, 1024}
LineSizes == (1 .. MaxLineSize) \cup {FallbackLineSize, 4096}

InitBlockSize ==
    /\ pc = "calc_start" /\ retPc = "calc_done"
    /\ MainIdle /\ ProbeIdle /\ CalcIdle /\ TransIdle
    /\ n = DefaultN
    /\ l1CacheSizeKB \in L1SizesKB
    /\ associativity \in Associativities
    /\ cacheLineSize \in LineSizes

NextBlockSize == CalcSetup \/ CalcShrink \/ CalcReturn

SpecBlockSize == InitBlockSize /\ [][NextBlockSize]_vars

\* the one thread runs until its function returns or the process dies
FairSpecBlockSize == SpecBlockSize /\ WF_vars(NextBlockSize)

\* C4: whenever calculateOptimalBlockSize returns, for a geometry with three
\* positive fields and 4-byte elements, the value is at least
\* cacheLineSize / 4 (integer division).
C4_AtLeastOneLine ==
    pc = "calc_done" => optimalBlockSize >= cacheLineSize \div 4

\* C4 happens: a direct-mapped 32 KiB cache with 64-byte lines, where the loop
\* shrinks the side to 0 and the result is the 16 elements of one line.
C4_Witness ==
    /\ pc = "calc_done"
    /\ l1CacheSizeKB = 32 /\ associativity = 1 /\ cacheLineSize = 64
    /\ alignedBlockSide = 0
    /\ optimalBlockSize = 16

\* C5: for every geometry with three positive fields, line sizes below 4
\* bytes included, calculateOptimalBlockSize completes and returns a
\* positive integer.
C5_ReturnsPositive ==
    /\ pc # "sigfpe"
    /\ pc = "calc_done" => optimalBlockSize > 0

\* C9: the shrinking loop, once entered, is left after finitely many
\* iterations, and alignedBlockSide is never negative while it runs or when
\* it is left.
C9_ShrinkLoopTerminates ==
    /\ [](pc \in {"calc_loop", "calc_ret"} => alignedBlockSide >= 0)
    /\ (pc = "calc_loop") ~> (pc = "calc_ret")

\* C9 happens: associativity 1 makes the bound numSets * (associativity / 2)
\* zero, and the loop has run the side from 64 down to 0.
C9_Witness ==
    /\ pc = "calc_ret"
    /\ l1CacheSizeKB = 32 /\ associativity = 1 /\ cacheLineSize = 64
    /\ numSets * (associativity \div 2) = 0
    /\ alignedBlockSide = 0 /\ linesPerBlock = 0

----------------------------------------------------------------------------
(* SpecTranspose: the kernels called as main calls them, through           *)
(* measureTime, on drawn inputs: the naive kernel from A into B_naive, the *)
(* blocked kernel from A into B, and then either kernel once more from one *)
(* of the two results into C.                                              *)

\* a matrix that is 1 at (p, q) and 0 elsewhere
UnitMatrix(d, p, q) ==
    [r \in Idx(d) |-> [c \in Idx(d) |-> IF r = p /\ c = q THEN 1 ELSE 0]]

\* the drawn source matrices: the one main builds, and every unit matrix
InputMatrices(d) ==
    {IndexMatrix(d)} \cup {UnitMatrix(d, p, q) : p \in Idx(d), q \in Idx(d)}

\* what a destination holds before the call (main fills with 0)
Fills == {0, -1}

\* measureTime(A, B, n, blockSize, useBlock): the timer is not modelled
MeasureTime(a, b, bs, ub) ==
    /\ src' = a
    /\ dst' = b
    /\ blockSize' = bs
    /\ useBlock' = ub
    /\ i' = 0
    /\ pc' = IF ub THEN "bt_i" ELSE "nt_i"
    /\ retPc' = "harness"
    /\ UNCHANGED <<n, mainVars, probeVars, geomVars, calcVars, mat, j, bi, bj, phase>>

MeasureNaive ==
    /\ pc = "harness" /\ phase = 0
    /\ MeasureTime("A", "B_naive", 0, FALSE)

MeasureBlock ==
    /\ pc = "harness" /\ phase = 1
    /\ MeasureTime("A", "B", optimalBlockSize, TRUE)

MeasureAgain ==
    /\ pc = "harness" /\ phase = 2
    /\ \E a \in {"B", "B_naive"}, ub \in BOOLEAN, bs \in 1 .. MaxBlock :
          /\ ub \/ bs = 1
          /\ MeasureTime(a, "C", IF ub THEN bs ELSE 0, ub)

InitTranspose ==
    /\ pc = "harness" /\ retPc = "none"
    /\ MainIdle /\ ProbeIdle /\ GeomIdle
    /\ elementsPerCacheLine = 0 /\ alignedBlockSide = 0 /\ numSets = 0
    /\ linesPerBlock = 0
    /\ optimalBlockSize \in 1 .. MaxBlock
    /\ n \in 1 .. MaxN
    /\ \E a \in InputMatrices(n), v \in Fills :
          mat = [A |-> a, B |-> FilledMatrix(n, v), B_naive |-> FilledMatrix(n, v),
                 C |-> FilledMatrix(n, v)]
    /\ src = "A" /\ dst = "B" /\ blockSize = 0
    /\ i = 0 /\ j = 0 /\ bi = 0 /\ bj = 0 /\ useBlock = FALSE /\ phase = 0

NextTranspose ==
    \/ MeasureNaive \/ MeasureBlock \/ MeasureAgain
    \/ NaiveOuter \/ NaiveInner
    \/ BlockOuter \/ BlockInner \/ TileRow \/ TileCol \/ TileStore

SpecTranspose == InitTranspose /\ [][NextTranspose]_vars

(* the matrix M with M[c][r] = X[r][c], written out cell by cell *)
Transposed(X, d) == [r \in Idx(d) |-> [c \in Idx(d) |-> X[c][r]]]

\* C1: for every drawn A, n and blockSize >= 1 (1, n, above n, not
\* dividing n), once blockTransposeMatrix(A, B, n, blockSize) has returned, B
\* equals cell for cell the B_naive that naiveTransposeMatrix made from A.
C1_BlockEqualsNaive ==
    (pc = "harness" /\ phase >= 2) =>
        \A r \in Idx(n), c \in Idx(n) : mat.B[r][c] = mat.B_naive[r][c]

\* C1 happens: n = 3 with blockSize = 2 (not a divisor of n), on the matrix
\* main builds, which is not symmetric.
C1_Witness ==
    /\ pc = "harness" /\ phase = 2
    /\ n = 3 /\ optimalBlockSize = 2 /\ blockSize = 2
    /\ mat.A = IndexMatrix(3)
    /\ mat.B = mat.B_naive
    /\ mat.B # mat.A

\* C2: after naiveTransposeMatrix(A, B_naive, n), B_naive[j][i] = A[i][j] for
\* all 0 <= i, j < n whatever B_naive held before, and no step changes A.
C2_NaiveTransposes ==
    /\ [](phase >= 1 =>
            \A r \in Idx(n), c \in Idx(n) : mat.B_naive[c][r] = mat.A[r][c])
    /\ [][mat'.A = mat.A]_vars

\* C2 happens: the naive kernel has returned on a 3 x 3 source whose
\* destination held -1 in every cell.
C2_Witness ==
    /\ pc = "harness" /\ phase = 1
    /\ n = 3
    /\ mat.B = FilledMatrix(3, -1)
    /\ mat.B_naive = Transposed(IndexMatrix(3), 3)
    /\ mat.B_naive # mat.B

\* C3: transposing A and then transposing the result gives C = A, whether
\* the first step was the naive kernel (B_naive) or the blocked one (B), and
\* whether the second is the naive kernel or the blocked one with any block
\* size >= 1.
C3_Involution ==
    (pc = "harness" /\ phase = 3) => mat.C = mat.A

\* C3 happens: blocked (blockSize 2) then blocked (blockSize 3), n = 3, on a
\* source that is not symmetric.
C3_Witness ==
    /\ pc = "harness" /\ phase = 3
    /\ n = 3 /\ src = "B" /\ useBlock /\ blockSize = 3 /\ optimalBlockSize = 2
    /\ mat.A = UnitMatrix(3, 0, 2)
    /\ mat.B # mat.A
    /\ mat.C = mat.A

\* C8: whenever blockTransposeMatrix is about to execute
\* B[bj][bi] = A[bi][bj], both indices are inside the matrix and inside the
\* current tile, for every drawn n >= 1 and blockSize >= 1.
C8_IndicesInBounds ==
    pc = "bt_store" =>
        /\ 0 <= bi /\ bi < n
        /\ 0 <= bj /\ bj < n
        /\ i <= bi /\ bi < i + blockSize
        /\ j <= bj /\ bj < j + blockSize

\* C8 happens: the last tile of a 3 x 3 matrix with blockSize 2, which is
\* one cell wide.
C8_Witness ==
    /\ pc = "bt_store"
    /\ n = 3 /\ blockSize = 2 /\ i = 2 /\ j = 2 /\ bi = 2 /\ bj = 2

----------------------------------------------------------------------------
(* main.  argv is what zen::cmd_args (kaizen.h, a library outside this     *)
(* repository) makes of it: whether --n is present, and the string that    *)
(* follows it.                                                             *)

Digits == {"0", "1", "7"}
ArgChars == Digits \cup {"-", "+", " ", "x"}

DigitValue(ch) == IF ch = "0" THEN 0 ELSE IF ch = "1" THEN 1 ELSE 7

\* the number of leading characters of s, from position k on, that satisfy P
RECURSIVE SpaceRun(_, _)
SpaceRun(s, k) ==
    IF k <= Len(s) /\ s[k] = " " THEN 1 + SpaceRun(s, k + 1) ELSE 0

RECURSIVE DigitRun(_, _)
DigitRun(s, k) ==
    IF k <= Len(s) /\ s[k] \in Digits THEN 1 + DigitRun(s, k + 1) ELSE 0

\* the decimal value of the m digits of s that start at position k
RECURSIVE DigitsValue(_, _, _)
DigitsValue(s, k, m) ==
    IF m = 0 THEN 0
    ELSE 10 * DigitsValue(s, k, m - 1) + DigitValue(s[k + m - 1])

\* std::stoi(s): leading whitespace is skipped, one sign is taken, then the
\* longest run of digits; what follows the digits is ignored.  Without a
\* digit it throws std::invalid_argument (ok = FALSE).  (It throws
\* std::out_of_range beyond int; no drawn string is that long.)
StoI(s) ==
    LET sp    == SpaceRun(s, 1)
        signed == sp + 1 <= Len(s) /\ s[sp + 1] \in {"-", "+"}
        first == IF signed THEN sp + 2 ELSE sp + 1
        m     == DigitRun(s, first)
        v     == DigitsValue(s, first, m)
    IN  [ok |-> m > 0,
         value |-> IF signed /\ s[sp + 1] = "-" THEN 0 - v ELSE v]

\* Lines 183-189.  An exception of std::stoi leaves main uncaught:
\* std::terminate aborts the process.
ParseArgs ==
    /\ pc = "main_start"
    /\ IF ~argPresent
       THEN /\ n' = DefaultN
            /\ pc' = "main_core"
       ELSE LET num == StoI(argValue)
            IN  IF ~num.ok
                THEN /\ pc' = "uncaught_exception"
                     /\ UNCHANGED n
                ELSE /\ n' = IF num.value > 0 THEN num.value ELSE DefaultN
                     /\ pc' = "main_core"
    /\ UNCHANGED <<retPc, mainVars, probeVars, geomVars, calcVars, transVars>>

\* the logical CPUs of the drawn hosts
Cores == {0, 1}

SetMin(S) == CHOOSE x \in S : \A y \in S : x <= y

\* Line 190, selectPerformanceCore (Linux branch): the lowest core of the
\* affinity mask, 0 when sched_getaffinity fails or the mask is empty.
SelectCore ==
    /\ pc = "main_core"
    /\ \E ok \in BOOLEAN, mask \in SUBSET Cores :
          selectedCore' = IF ok /\ mask # {} THEN SetMin(mask) ELSE 0
    /\ pc' = "main_pin"
    /\ UNCHANGED <<retPc, n, argPresent, argValue, pinned, exitCode, probeVars,
                   geomVars, calcVars, transVars>>

\* Lines 191-194, pinToCore: the system call succeeds or fails; main goes on
\* either way.
PinToCore ==
    /\ pc = "main_pin"
    /\ pinned' \in BOOLEAN
    /\ pc' = "main_probe"
    /\ UNCHANGED <<retPc, n, argPresent, argValue, selectedCore, exitCode,
                   probeVars, geomVars, calcVars, transVars>>

\* Lines 196-197: the call of getCacheParameters; its result is not used.
CallProbe ==
    /\ pc = "main_probe"
    /\ subleaf' = 0
    /\ pc' = "gp_loop"
    /\ retPc' = "main_calc"
    /\ UNCHANGED <<n, mainVars, hw, eax, ebx, ecx, queried, detected, geomVars,
                   calcVars, transVars>>

\* Line 199: the call of calculateOptimalBlockSize.
CallCalc ==
    /\ pc = "main_calc"
    /\ pc' = "calc_start"
    /\ retPc' = "main_bench"
    /\ UNCHANGED <<n, mainVars, probeVars, geomVars, calcVars, transVars>>

\* Lines 200-207: the matrices are built and both kernels are timed.  The
\* matrices are locals that nothing reads afterwards and n is up to 512, so
\* they are not kept here; SpecTranspose runs the kernels step by step.  The
\* blocked kernel's outer loops advance by blockSize: with blockSize <= 0
\* they never end.
Benchmark ==
    /\ pc = "main_bench"
    /\ pc' = IF optimalBlockSize >= 1 THEN "main_report" ELSE "spinning"
    /\ UNCHANGED <<retPc, n, mainVars, probeVars, geomVars, calcVars, transVars>>

\* Lines 209-227: the table is printed and main returns 0.
Report ==
    /\ pc = "main_report"
    /\ exitCode' = 0
    /\ pc' = "exited"
    /\ UNCHANGED <<retPc, n, argPresent, argValue, selectedCore, pinned,
                   probeVars, geomVars, calcVars, transVars>>

(* SpecMain: main on drawn command lines and four machines: one whose      *)
(* subleaf 0 is the L1 data cache, one with an instruction cache first,    *)
(* one without leaf 4, one whose data cache has 2-byte lines.              *)

ArgStrings ==
    UNION { [1 .. m -> ArgChars] : m \in 0 .. MaxArgLen }

MainMachines ==
    { Table(0, InstrL1, DataL1, UnifiedL2),
      Table(1, InstrL1, DataSmall, Terminator),
      Table(0, InstrL1, Terminator, Terminator),
      Table(1, InstrL1, DataNarrow, Terminator) }

InitMain ==
    /\ pc = "main_start" /\ retPc = "none"
    /\ argPresent \in BOOLEAN
    /\ argValue \in (IF argPresent THEN ArgStrings ELSE {<<>>})
    /\ n = 0
    /\ selectedCore = 0 /\ pinned = FALSE /\ exitCode = -1
    /\ hw \in MainMachines
    /\ subleaf = 0 /\ eax = 0 /\ ebx = 0 /\ ecx = 0
    /\ queried = <<>> /\ detected = FALSE
    /\ GeomIdle /\ CalcIdle /\ TransIdle

NextMain ==
    \/ ParseArgs \/ SelectCore \/ PinToCore \/ CallProbe
    \/ ProbeLoop \/ ProbeCpuid \/ ProbeCheck \/ ProbeFallback
    \/ CallCalc \/ CalcSetup \/ CalcShrink \/ CalcReturn
    \/ Benchmark \/ Report

SpecMain == InitMain /\ [][NextMain]_vars

\* what the claim says n is: the parsed integer if --n is given and positive,
\* otherwise the default 512
ClaimedN ==
    IF argPresent /\ StoI(argValue).ok /\ StoI(argValue).value > 0
    THEN StoI(argValue).value
    ELSE 512

\* C7: whatever --n is (absent, a positive integer, a non-positive integer,
\* an unparsable string), the program is not killed by it, and a run that
\* ends has used the positive integer, or else 512, and returned 0.
C7_ArgumentNeverFatal ==
    /\ pc # "uncaught_exception"
    /\ pc = "exited" => (n = ClaimedN /\ exitCode = 0)
====
